---- MODULE Spec2Model ----
(***************************************************************************)
(* A model of the two utilities of the network-automation repository:      *)
(*   - src/src/config_parser/config.py : the singleton Config loader,      *)
(*   - src/scripts/nm_operations/nm_operations.py : the session helpers.   *)
(* SpecConfig  runs Config sequentially against an editable file system.   *)
(* SpecRace    runs two concurrent first constructions, one statement of   *)
(*             __new__ / __init__ per step.                                *)
(* SpecSession runs the five session operations against an SSH client      *)
(*             whose calls may succeed or raise.                           *)
(***************************************************************************)
EXTENDS Naturals, Sequences, FiniteSets, TLC

VARIABLES
    fs,          \* the file system: path -> Absent | Unreadable | text content
    configDir,   \* whether the package's "config" directory exists
    instance,    \* Config._instance: None (0) or an object id
    heap,        \* object id -> the attributes of that Config object
    nobj,        \* number of Config objects allocated so far
    ret,         \* outcome of the last Config operation
    firstPath,   \* history: config_path of the first completed construction
    lastGood,    \* history: result of the most recent load that succeeded
    firstFailed, \* history: a construction raised before any had completed
    pc,          \* SpecRace: thread -> statement about to run
    self,        \* SpecRace: thread -> object its __new__ returned (0: none)
    loads,       \* SpecRace: number of load_config calls made
    call         \* SpecSession: outcome of the last session operation

cfgVars == <<fs, configDir, instance, heap, nobj, ret, firstPath, lastGood,
            firstFailed>>
raceVars == <<pc, self, loads>>
vars == <<fs, configDir, instance, heap, nobj, ret, firstPath, lastGood,
          firstFailed, pc, self, loads, call>>

\* ------------------------------------------------------------------ bounds

MaxObj == 2      \* objects the heap has room for
MaxCmds == 2     \* longest command list handed to execute_commands

\* ------------------------------------------------------- Python values

None == 0

EmptyDict == [type |-> "dict", items |-> {}]
DictA == [type |-> "dict", items |-> {<<"a", 1>>}]
EmptyList == [type |-> "list", items |-> {}]
PyNone == [type |-> "NoneType", items |-> {}]
NoAttr == [type |-> "<no attribute>", items |-> {}]

\* Python truth value of a parsed document (the `or {}` of line 52).
Truthy(v) == v.type # "NoneType" /\ v.items # {}

NoExc == "none"
Returned(v) == [exc |-> NoExc, value |-> v]
Raised(e) == [exc |-> e, value |-> PyNone]

\* ------------------------------------------------------------ file system

Absent == "<absent>"
Unreadable == "<unreadable>"      \* exists, but open(path, 'r') raises OSError
Contents == {"", "[]", "{\"a\": 1}", "{"}
FileStates == {Absent, Unreadable} \cup Contents

NoPath == [stem |-> "<unset>", suffix |-> ""]
PathJson == [stem |-> "a", suffix |-> ".json"]
PathYaml == [stem |-> "b", suffix |-> ".YML"]
PathIni == [stem |-> "c", suffix |-> ".ini"]
DefaultPath == [stem |-> "config/config", suffix |-> ".json"]
Paths == {PathJson, PathYaml, PathIni, DefaultPath}
PathArgs == {PathJson, PathYaml, PathIni, NoPath}    \* NoPath: config_path=None

\* str.lower() on the suffixes in use.
Lower(s) ==
    CASE s = ".YML" -> ".yml"
      [] s = ".YAML" -> ".yaml"
      [] s = ".JSON" -> ".json"
      [] s = ".INI" -> ".ini"
      [] OTHER -> s

\* json.load on the text of a file.
JsonLoad(text) ==
    CASE text = "[]" -> Returned(EmptyList)
      [] text = "{\"a\": 1}" -> Returned(DictA)
      [] OTHER -> Raised("JSONDecodeError")

\* yaml.safe_load on the text of a file: an empty document is None.
YamlSafeLoad(text) ==
    CASE text = "" -> Returned(PyNone)
      [] text = "[]" -> Returned(EmptyList)
      [] text = "{\"a\": 1}" -> Returned(DictA)
      [] OTHER -> Raised("YAMLError")

\* Path.exists()
Exists(fsys, path) == fsys[path] # Absent

\* load_config without the exists() test of line 47: open() raises instead.
LoadConfigNoExistsCheck(fsys, path) ==
    LET ext == Lower(path.suffix) IN
    IF fsys[path] \in {Absent, Unreadable} THEN Raised("OSError")
    ELSE IF ext \in {".yaml", ".yml"} THEN
        LET r == YamlSafeLoad(fsys[path]) IN
        IF r.exc # NoExc THEN r
        ELSE IF Truthy(r.value) THEN r ELSE Returned(EmptyDict)
    ELSE IF ext = ".json" THEN JsonLoad(fsys[path])
    ELSE Raised("ValueError: Unsupported config file extension")

\* load_config with the final else of lines 55-56 returning {} instead.
LoadConfigLenient(fsys, path) ==
    LET ext == Lower(path.suffix) IN
    IF ~Exists(fsys, path) THEN Returned(EmptyDict)
    ELSE IF fsys[path] = Unreadable THEN Raised("OSError")
    ELSE IF ext \in {".yaml", ".yml"} THEN
        LET r == YamlSafeLoad(fsys[path]) IN
        IF r.exc # NoExc THEN r
        ELSE IF Truthy(r.value) THEN r ELSE Returned(EmptyDict)
    ELSE IF ext = ".json" THEN JsonLoad(fsys[path])
    ELSE Returned(EmptyDict)

\* Config.load_config, on the file system fsys with self.config_path = path.
LoadConfig(fsys, path) ==
    LET ext == Lower(path.suffix) IN
    IF ~Exists(fsys, path) THEN Returned(EmptyDict)
    ELSE IF fsys[path] = Unreadable THEN Raised("OSError")
    ELSE IF ext \in {".yaml", ".yml"} THEN
        LET r == YamlSafeLoad(fsys[path]) IN
        IF r.exc # NoExc THEN r
        ELSE IF Truthy(r.value) THEN r ELSE Returned(EmptyDict)
    ELSE IF ext = ".json" THEN JsonLoad(fsys[path])
    ELSE Raised("ValueError: Unsupported config file extension")

\* ------------------------------------------------------------ Config heap

Fresh == [initialized |-> "unset", config_path |-> NoPath, config |-> NoAttr]

\* Line 27: cls._instance is None
InstanceIsNone(inst) == inst = None

\* __init__ storing the default path whatever its argument.
ResolveAlwaysDefault(arg) == DefaultPath

\* Lines 35-37: the path __init__ stores, the default one for config_path=None.

ResolvePath(arg) == IF arg = NoPath THEN DefaultPath ELSE arg

\* __init__ without the early return of lines 33-34.
IsInitializedNever(h, o) == FALSE

\* Line 33: if self._initialized

IsInitialized(h, o) == h[o].initialized = "true"

\* Lines 26-30, run without interruption: the instance, heap and allocation
\* count after __new__, and the object it returns.
DunderNew(inst, h, n) ==
    IF InstanceIsNone(inst)
    THEN [instance |-> n + 1,
          heap |-> [h EXCEPT ![n + 1].initialized = "false"],
          nobj |-> n + 1,
          obj |-> n + 1]
    ELSE [instance |-> inst, heap |-> h, nobj |-> n, obj |-> inst]

\* __init__ setting _initialized before the load instead of after it.
DunderInitMarksFirst(h, o, arg, fsys) ==
    IF IsInitialized(h, o)
    THEN [heap |-> h, exc |-> NoExc, loadPath |-> NoPath]
    ELSE LET path == ResolvePath(arg)
             r == LoadConfig(fsys, path)
         IN  IF r.exc # NoExc
             THEN [heap |-> [h EXCEPT ![o].config_path = path,
                                      ![o].initialized = "true"],
                   exc |-> r.exc, loadPath |-> path]
             ELSE [heap |-> [h EXCEPT ![o].config_path = path,
                                      ![o].config = r.value,
                                      ![o].initialized = "true"],
                   exc |-> NoExc, loadPath |-> path]

\* Lines 32-39 on object o: the heap afterwards, the exception raised (if
\* any) and the path load_config consulted (NoPath: it was not called).
DunderInit(h, o, arg, fsys) ==
    IF IsInitialized(h, o)
    THEN [heap |-> h, exc |-> NoExc, loadPath |-> NoPath]
    ELSE LET path == ResolvePath(arg)
             r == LoadConfig(fsys, path)
         IN  IF r.exc # NoExc
             THEN [heap |-> [h EXCEPT ![o].config_path = path],
                   exc |-> r.exc, loadPath |-> path]
             ELSE [heap |-> [h EXCEPT ![o].config_path = path,
                                      ![o].config = r.value,
                                      ![o].initialized = "true"],
                   exc |-> NoExc, loadPath |-> path]

\* reload_config catching the failure and holding {} afterwards.
ReloadConfigClearsOnFailure(h, o, fsys) ==
    LET r == LoadConfig(fsys, h[o].config_path) IN
    IF r.exc # NoExc
    THEN [heap |-> [h EXCEPT ![o].config = EmptyDict], exc |-> r.exc,
          loadPath |-> h[o].config_path]
    ELSE [heap |-> [h EXCEPT ![o].config = r.value], exc |-> NoExc,
          loadPath |-> h[o].config_path]

\* Lines 58-60 on object o: self.config = self.load_config()
ReloadConfig(h, o, fsys) ==
    LET r == LoadConfig(fsys, h[o].config_path) IN
    IF r.exc # NoExc
    THEN [heap |-> h, exc |-> r.exc, loadPath |-> h[o].config_path]
    ELSE [heap |-> [h EXCEPT ![o].config = r.value], exc |-> NoExc,
          loadPath |-> h[o].config_path]

\* Lines 62-63
GetConfigValue(h, o) == h[o].config

\* --------------------------------------------- SpecConfig: sequential use

Idle == [op |-> "idle", arg |-> NoPath, exc |-> NoExc, obj |-> None,
         value |-> PyNone, loadPath |-> NoPath]

raceIdle ==
    /\ pc = <<>>
    /\ self = <<>>
    /\ loads = 0

sessionIdle == call = 0

InitConfig ==
    /\ fs = [p \in Paths |-> Absent]
    /\ configDir = FALSE
    /\ instance = None
    /\ heap = [o \in 1..MaxObj |-> Fresh]
    /\ nobj = 0
    /\ ret = Idle
    /\ firstPath = NoPath
    /\ lastGood = NoAttr
    /\ firstFailed = FALSE
    /\ raceIdle
    /\ sessionIdle

\* Config(arg): __new__, then __init__ on the object __new__ returned.
\* get_default_config_path (lines 41-44) creates the config directory.
Construct(arg) ==
    LET n == DunderNew(instance, heap, nobj)
        i == DunderInit(n.heap, n.obj, arg, fs)
        resolves == ~IsInitialized(n.heap, n.obj) /\ arg = NoPath
    IN  /\ InstanceIsNone(instance) => nobj < MaxObj
        /\ instance' = n.instance
        /\ nobj' = n.nobj
        /\ heap' = i.heap
        /\ configDir' = (configDir \/ resolves)
        /\ ret' = [op |-> "Config", arg |-> arg, exc |-> i.exc,
                   obj |-> IF i.exc = NoExc THEN n.obj ELSE None,
                   value |-> PyNone, loadPath |-> i.loadPath]
        /\ firstPath' = IF firstPath = NoPath /\ i.exc = NoExc
                        THEN i.heap[n.obj].config_path ELSE firstPath
        /\ lastGood' = IF i.loadPath # NoPath /\ i.exc = NoExc
                       THEN LoadConfig(fs, i.loadPath).value ELSE lastGood
        /\ firstFailed' = (firstFailed \/ i.exc # NoExc)
        /\ UNCHANGED fs

\* A caller holds the instance only once a construction has returned it.
HeldInstance == instance # None /\ IsInitialized(heap, instance)

Reload ==
    /\ HeldInstance
    /\ LET r == ReloadConfig(heap, instance, fs) IN
        /\ heap' = r.heap
        /\ ret' = [op |-> "reload_config", arg |-> NoPath, exc |-> r.exc,
                   obj |-> None, value |-> PyNone, loadPath |-> r.loadPath]
        /\ lastGood' = IF r.exc = NoExc
                       THEN LoadConfig(fs, r.loadPath).value ELSE lastGood
    /\ UNCHANGED <<fs, configDir, instance, nobj, firstPath, firstFailed>>

GetConfig ==
    /\ HeldInstance
    /\ ret' = [op |-> "get_config", arg |-> NoPath, exc |-> NoExc,
               obj |-> None, value |-> GetConfigValue(heap, instance),
               loadPath |-> NoPath]
    /\ UNCHANGED <<fs, configDir, instance, heap, nobj, firstPath, lastGood,
                   firstFailed>>

\* The environment edits, removes or locks a file between two operations.
EditFile(p, st) ==
    /\ fs[p] # st
    /\ fs' = [fs EXCEPT ![p] = st]
    /\ configDir' = (configDir \/ (p = DefaultPath /\ st # Absent))
    /\ ret' = Idle
    /\ UNCHANGED <<instance, heap, nobj, firstPath, lastGood, firstFailed>>

NextConfig ==
    \/ \E arg \in PathArgs : Construct(arg) /\ UNCHANGED <<pc, self, loads, call>>
    \/ Reload /\ UNCHANGED <<pc, self, loads, call>>
    \/ GetConfig /\ UNCHANGED <<pc, self, loads, call>>
    \/ \E p \in Paths, st \in FileStates :
          EditFile(p, st) /\ UNCHANGED <<pc, self, loads, call>>

SpecConfig == InitConfig /\ [][NextConfig]_vars

\* ------------------------------- SpecRace: two concurrent constructions

Threads == {"t1", "t2"}
ArgOf == [t \in Threads |-> IF t = "t1" THEN PathJson ELSE PathYaml]
RaceFiles == {Absent, "{\"a\": 1}", "{"}

InitRace ==
    /\ fs \in {f \in [Paths -> FileStates] :
                 /\ f[PathJson] \in RaceFiles
                 /\ f[PathYaml] \in RaceFiles
                 /\ f[PathIni] = Absent
                 /\ f[DefaultPath] = Absent}
    /\ configDir = FALSE
    /\ instance = None
    /\ heap = [o \in 1..MaxObj |-> Fresh]
    /\ nobj = 0
    /\ ret = Idle
    /\ firstPath = NoPath
    /\ lastGood = NoAttr
    /\ firstFailed = FALSE
    /\ pc = [t \in Threads |-> "new27"]
    /\ self = [t \in Threads |-> None]
    /\ loads = 0
    /\ sessionIdle

Goto(t, label) == pc' = [pc EXCEPT ![t] = label]

\* Line 27: if cls._instance is None
New27(t) ==
    /\ pc[t] = "new27"
    /\ Goto(t, IF InstanceIsNone(instance) THEN "new28" ELSE "new30")
    /\ UNCHANGED <<instance, heap, nobj, self, loads>>

\* Line 28: cls._instance = super(Config, cls).__new__(cls)
New28(t) ==
    /\ pc[t] = "new28"
    /\ nobj < MaxObj
    /\ nobj' = nobj + 1
    /\ instance' = nobj + 1
    /\ Goto(t, "new29")
    /\ UNCHANGED <<heap, self, loads>>

\* Line 29: cls._instance._initialized = False
New29(t) ==
    /\ pc[t] = "new29"
    /\ heap' = [heap EXCEPT ![instance].initialized = "false"]
    /\ Goto(t, "new30")
    /\ UNCHANGED <<instance, nobj, self, loads>>

\* Line 30: return cls._instance
New30(t) ==
    /\ pc[t] = "new30"
    /\ self' = [self EXCEPT ![t] = instance]
    /\ Goto(t, "init33")
    /\ UNCHANGED <<instance, heap, nobj, loads>>

\* Lines 33-34: if self._initialized: return.  The attribute is missing
\* while the thread that allocated the object has not yet run line 29.
Init33(t) ==
    /\ pc[t] = "init33"
    /\ Goto(t, IF heap[self[t]].initialized = "unset" THEN "AttributeError"
               ELSE IF IsInitialized(heap, self[t]) THEN "done"
               ELSE "init35")
    /\ UNCHANGED <<instance, heap, nobj, self, loads>>

\* Lines 35-37: self.config_path = Path(config_path)
Init37(t) ==
    /\ pc[t] = "init35"
    /\ heap' = [heap EXCEPT ![self[t]].config_path = ResolvePath(ArgOf[t])]
    /\ Goto(t, "init38")
    /\ UNCHANGED <<instance, nobj, self, loads>>

\* Line 38: self.config = self.load_config(), which reads self.config_path
Init38(t) ==
    /\ pc[t] = "init38"
    /\ loads' = loads + 1
    /\ LET r == LoadConfig(fs, heap[self[t]].config_path) IN
         IF r.exc # NoExc
         THEN Goto(t, "LoadError") /\ UNCHANGED heap
         ELSE /\ heap' = [heap EXCEPT ![self[t]].config = r.value]
              /\ Goto(t, "init39")
    /\ UNCHANGED <<instance, nobj, self>>

\* Line 39: self._initialized = True
Init39(t) ==
    /\ pc[t] = "init39"
    /\ heap' = [heap EXCEPT ![self[t]].initialized = "true"]
    /\ Goto(t, "done")
    /\ UNCHANGED <<instance, nobj, self, loads>>

raceFrame ==
    UNCHANGED <<fs, configDir, ret, firstPath, lastGood, firstFailed, call>>

NextRace ==
    \/ \E t \in Threads : New27(t) /\ raceFrame
    \/ \E t \in Threads : New28(t) /\ raceFrame
    \/ \E t \in Threads : New29(t) /\ raceFrame
    \/ \E t \in Threads : New30(t) /\ raceFrame
    \/ \E t \in Threads : Init33(t) /\ raceFrame
    \/ \E t \in Threads : Init37(t) /\ raceFrame
    \/ \E t \in Threads : Init38(t) /\ raceFrame
    \/ \E t \in Threads : Init39(t) /\ raceFrame

SpecRace == InitRace /\ [][NextRace]_vars

Finished(t) == pc[t] \in {"done", "AttributeError", "LoadError"}
RaceOver == \A t \in Threads : Finished(t)

\* ------------------------------------------- the session operations

NullHandle == "None"
Connections == {NullHandle, "conn1"}

\* if connection: / if not connection:
HandleTruthy(c) == c # NullHandle

Commands == {"show version", "show ip route"}
Outputs == {"out1", "out2"}

\* The classes of netmiko.exceptions (line 3) the handlers of
\* connect_to_device name.  An exception the client raises is an Exception
\* and an instance of any subset of them.
ExcClasses == {"NetmikoAuthenticationException", "NetmikoTimeoutException",
               "ConnectionException", "SSHException"}

\* What one call of the client does: it returns text or raises.
Ok(text) == [ok |-> TRUE, text |-> text, classes |-> {}]
Fails(classes) == [ok |-> FALSE, text |-> "", classes |-> classes]
OpenOutcomes == {Ok("conn1")} \cup {Fails(S) : S \in SUBSET ExcClasses}
Outcomes == {Ok(t) : t \in Outputs}
            \cup {Fails({"NetmikoTimeoutException", "SSHException"})}

\* Device descriptors: netmiko accepts the address as 'host' or as 'ip'.
DeviceWithHost == [keys |-> {"device_type", "host", "username", "password"}]
DeviceWithIp == [keys |-> {"device_type", "ip", "username", "password"}]
DeviceInfos == {DeviceWithHost, DeviceWithIp}

\* device_info['host'] inside the f-strings: a KeyError without the key.
HasHost(d) == "host" \in d.keys

RetNone == [kind |-> "None", text |-> "", map |-> <<>>]
RetText(t) == [kind |-> "str", text |-> t, map |-> <<>>]
RetHandle(c) == [kind |-> "connection", text |-> c, map |-> <<>>]
RetDict(m) == [kind |-> "dict", text |-> "", map |-> m]

Info(msg) == [level |-> "INFO", msg |-> msg]
Error(msg) == [level |-> "ERROR", msg |-> msg]
ClientCall(method, arg) == [method |-> method, arg |-> arg]

NoArgs == [connection |-> NullHandle, device |-> DeviceWithHost,
           commands |-> <<>>, outcomes |-> <<>>]

Finish(op, args, log, client, r, exc) ==
    [op |-> op, args |-> args, log |-> log, client |-> client,
     ret |-> r, exc |-> exc]

\* Lines 20-34: the message of the first except clause matching the error.
HandlerMessage(classes) ==
    IF "NetmikoAuthenticationException" \in classes THEN "Authentication failed"
    ELSE IF "NetmikoTimeoutException" \in classes THEN "Connection timed out"
    ELSE IF "ConnectionException" \in classes THEN "Connection error"
    ELSE IF "SSHException" \in classes THEN "SSH error while connecting"
    ELSE "Failed to connect"

\* Lines 16-34.  Every log line formats device_info['host']; a KeyError
\* raised inside an except clause leaves the function.
ConnectToDevice(d, o) ==
    LET args == [NoArgs EXCEPT !.device = d, !.outcomes = <<o>>]
        client == <<ClientCall("ConnectHandler", "device_info")>>
    IN  IF ~HasHost(d)
        THEN Finish("connect_to_device", args, <<>>, client, RetNone, "KeyError")
        ELSE IF o.ok
        THEN Finish("connect_to_device", args,
                    <<Info("Successfully connected")>>, client,
                    RetHandle(o.text), NoExc)
        ELSE Finish("connect_to_device", args,
                    <<Error(HandlerMessage(o.classes))>>, client,
                    RetNone, NoExc)

\* disconnect_from_device without the test of line 44.
DisconnectCallsClientOnNone(c, o) ==
    LET args == [NoArgs EXCEPT !.connection = c, !.outcomes = <<o>>] IN
    IF c = NullHandle
    THEN Finish("disconnect_from_device", args, <<>>, <<>>, RetNone,
                "AttributeError")
    ELSE IF o.ok
    THEN Finish("disconnect_from_device", args,
                <<Info("Disconnected successfully.")>>,
                <<ClientCall("disconnect", "")>>, RetNone, NoExc)
    ELSE Finish("disconnect_from_device", args, <<>>,
                <<ClientCall("disconnect", "")>>, RetNone, "ClientError")

\* Lines 44-48: connection.disconnect() is not inside a try.
DisconnectFromDevice(c, o) ==
    LET args == [NoArgs EXCEPT !.connection = c, !.outcomes = <<o>>] IN
    IF ~HandleTruthy(c)
    THEN Finish("disconnect_from_device", args,
                <<Info("No active connection to disconnect.")>>, <<>>,
                RetNone, NoExc)
    ELSE IF o.ok
    THEN Finish("disconnect_from_device", args,
                <<Info("Disconnected successfully.")>>,
                <<ClientCall("disconnect", "")>>, RetNone, NoExc)
    ELSE Finish("disconnect_from_device", args, <<>>,
                <<ClientCall("disconnect", "")>>, RetNone, "ClientError")

\* Lines 62-72
ExecuteCommand(c, command, o) ==
    LET args == [NoArgs EXCEPT !.connection = c, !.commands = <<command>>,
                               !.outcomes = <<o>>]
        client == <<ClientCall("send_command", command)>>
    IN  IF ~HandleTruthy(c)
        THEN Finish("execute_command", args,
                    <<Info("No active connection to execute command.")>>,
                    <<>>, RetNone, NoExc)
        ELSE IF o.ok
        THEN Finish("execute_command", args,
                    <<Info("Command executed successfully")>>, client,
                    RetText(o.text), NoExc)
        ELSE Finish("execute_command", args,
                    <<Error("Failed to execute command")>>, client,
                    RetNone, NoExc)

\* Lines 91-98: the loop body for commands[i], ..., commands[Len(commands)];
\* acc holds results, the log and the client calls so far.
RECURSIVE CommandLoop(_, _, _, _)
CommandLoop(commands, outcomes, i, acc) ==
    IF i > Len(commands) THEN acc
    ELSE LET command == commands[i]
             o == outcomes[i]
             sent == Append(acc.client, ClientCall("send_command", command))
         IN  IF o.ok
             THEN CommandLoop(commands, outcomes, i + 1,
                    [results |-> (command :> RetText(o.text)) @@ acc.results,
                     log |-> Append(acc.log, Info("Command executed successfully")),
                     client |-> sent])
             ELSE CommandLoop(commands, outcomes, i + 1,
                    [results |-> (command :> RetNone) @@ acc.results,
                     log |-> Append(acc.log, Error("Failed to execute command")),
                     client |-> sent])

\* The loop leaving at the first command that raises.
RECURSIVE CommandLoopAborting(_, _, _, _)
CommandLoopAborting(commands, outcomes, i, acc) ==
    IF i > Len(commands) THEN acc
    ELSE LET command == commands[i]
             o == outcomes[i]
             sent == Append(acc.client, ClientCall("send_command", command))
         IN  IF o.ok
             THEN CommandLoopAborting(commands, outcomes, i + 1,
                    [results |-> (command :> RetText(o.text)) @@ acc.results,
                     log |-> Append(acc.log, Info("Command executed successfully")),
                     client |-> sent])
             ELSE [results |-> (command :> RetNone) @@ acc.results,
                   log |-> Append(acc.log, Error("Failed to execute command")),
                   client |-> sent]

ExecuteCommandsAborting(c, commands, outcomes) ==
    LET args == [NoArgs EXCEPT !.connection = c, !.commands = commands,
                               !.outcomes = outcomes]
        done == CommandLoopAborting(commands, outcomes, 1,
                    [results |-> <<>>, log |-> <<>>, client |-> <<>>])
    IN  IF ~HandleTruthy(c)
        THEN Finish("execute_commands", args,
                    <<Info("No active connection to execute commands.")>>,
                    <<>>, RetNone, NoExc)
        ELSE Finish("execute_commands", args, done.log, done.client,
                    RetDict(done.results), NoExc)

\* Lines 86-99
ExecuteCommands(c, commands, outcomes) ==
    LET args == [NoArgs EXCEPT !.connection = c, !.commands = commands,
                               !.outcomes = outcomes]
        done == CommandLoop(commands, outcomes, 1,
                    [results |-> <<>>, log |-> <<>>, client |-> <<>>])
    IN  IF ~HandleTruthy(c)
        THEN Finish("execute_commands", args,
                    <<Info("No active connection to execute commands.")>>,
                    <<>>, RetNone, NoExc)
        ELSE Finish("execute_commands", args, done.log, done.client,
                    RetDict(done.results), NoExc)

\* Lines 113-123
ConfigureDevice(c, o) ==
    LET args == [NoArgs EXCEPT !.connection = c, !.outcomes = <<o>>]
        client == <<ClientCall("send_config_set", "configuration_commands")>>
    IN  IF ~HandleTruthy(c)
        THEN Finish("configure_device", args,
                    <<Info("No active connection to configure device.")>>,
                    <<>>, RetNone, NoExc)
        ELSE IF o.ok
        THEN Finish("configure_device", args,
                    <<Info("Configuration commands executed successfully.")>>,
                    client, RetText(o.text), NoExc)
        ELSE Finish("configure_device", args,
                    <<Error("Failed to configure device")>>, client,
                    RetNone, NoExc)

\* ------------------------------------------ SpecSession: any call order

SeqsUpTo(S, n) == UNION {[1..k -> S] : k \in 0..n}

SessionIdle == Finish("idle", NoArgs, <<>>, <<>>, RetNone, NoExc)

InitSession ==
    /\ fs = [p \in Paths |-> Absent]
    /\ configDir = FALSE
    /\ instance = None
    /\ heap = [o \in 1..MaxObj |-> Fresh]
    /\ nobj = 0
    /\ ret = Idle
    /\ firstPath = NoPath
    /\ lastGood = NoAttr
    /\ firstFailed = FALSE
    /\ raceIdle
    /\ call = SessionIdle

Connect == \E d \in DeviceInfos, o \in OpenOutcomes : call' = ConnectToDevice(d, o)

Disconnect ==
    \E c \in Connections, o \in Outcomes : call' = DisconnectFromDevice(c, o)

RunCommand ==
    \E c \in Connections, command \in Commands, o \in Outcomes :
        call' = ExecuteCommand(c, command, o)

RunCommands ==
    \E c \in Connections, commands \in SeqsUpTo(Commands, MaxCmds) :
        \E outcomes \in [1..Len(commands) -> Outcomes] :
            call' = ExecuteCommands(c, commands, outcomes)

Configure ==
    \E c \in Connections, o \in Outcomes : call' = ConfigureDevice(c, o)

sessionFrame == UNCHANGED <<cfgVars, raceVars>>

NextSession ==
    \/ Connect /\ sessionFrame
    \/ Disconnect /\ sessionFrame
    \/ RunCommand /\ sessionFrame
    \/ RunCommands /\ sessionFrame
    \/ Configure /\ sessionFrame

SpecSession == InitSession /\ [][NextSession]_vars

\* ------------------------------------------------------------ the claims

UnsupportedFormat == "ValueError: Unsupported config file extension"
SupportedSuffixes == {".json", ".yaml", ".yml"}
ConfigAttr == heap[instance].config
PathAttr == heap[instance].config_path
ArgPath(arg) == IF arg = NoPath THEN DefaultPath ELSE arg

C5_UnsupportedAlwaysFails ==
    (ret.loadPath # NoPath /\ Lower(ret.loadPath.suffix) \notin SupportedSuffixes)
        => ret.exc = UnsupportedFormat

\* C5 amended: a load of such a path fails with the unsupported-format
\* error when a readable file exists there; when no file exists there the
\* load succeeds and the held mapping is empty.
C5_UnsupportedFailsWhenFileExists ==
    (ret.loadPath # NoPath /\ Lower(ret.loadPath.suffix) \notin SupportedSuffixes)
        => /\ fs[ret.loadPath] \in Contents => ret.exc = UnsupportedFormat
           /\ fs[ret.loadPath] = Absent => ret.exc = NoExc /\ ConfigAttr = EmptyDict

C5_Witness ==
    /\ ret.op = "reload_config"
    /\ ret.loadPath = PathIni
    /\ fs[PathIni] = "{\"a\": 1}"
    /\ ret.exc = UnsupportedFormat

\* C6: a load (by construction or reload_config) of a path at which no
\* file exists raises nothing and leaves the held mapping empty, whatever
\* the extension.
C6_MissingFileLoadsEmpty ==
    (ret.loadPath # NoPath /\ fs[ret.loadPath] = Absent)
        => /\ ret.exc = NoExc
           /\ HeldInstance
           /\ ConfigAttr = EmptyDict

C6_Witness ==
    /\ ret.op = "reload_config"
    /\ ret.loadPath = PathIni
    /\ fs[PathIni] = Absent
    /\ ret.exc = NoExc
    /\ ConfigAttr = EmptyDict

\* C7: once a construction has succeeded, the held mapping, which is what
\* get_config returns, is the result of the most recent load that
\* succeeded; in particular a reload_config that raises leaves it as it was.
C7_HeldMappingIsLastGoodLoad ==
    /\ HeldInstance => ConfigAttr = lastGood
    /\ ret.op = "get_config" => ret.value = lastGood
    /\ (ret.op = "reload_config" /\ ret.exc = NoExc)
          => ConfigAttr = LoadConfig(fs, PathAttr).value

C7_Witness ==
    /\ ret.op = "reload_config"
    /\ ret.exc = "JSONDecodeError"
    /\ PathAttr = PathJson
    /\ ConfigAttr = DictA
    /\ lastGood = DictA

\* C10: a first construction whose load raises leaves the shared instance
\* created, with config_path set to its path, not initialized and holding
\* no mapping; the next construction then stores its own path (or the
\* default), loads it, and initializes the instance exactly when that
\* load succeeds.
C10_FailedConstruction ==
    (ret.op = "Config" /\ ret.exc # NoExc)
        => /\ instance # None
           /\ heap[instance].initialized = "false"
           /\ ConfigAttr = NoAttr
           /\ PathAttr = ArgPath(ret.arg)
           /\ ret.loadPath = ArgPath(ret.arg)

C10_NextConstruction ==
    (instance # None /\ ~HeldInstance /\ ret'.op = "Config")
        => /\ instance' = instance
           /\ ret'.loadPath = ArgPath(ret'.arg)
           /\ heap'[instance].config_path = ArgPath(ret'.arg)
           /\ (heap'[instance].initialized = "true") <=> (ret'.exc = NoExc)
           /\ ret'.exc = NoExc => heap'[instance].config = lastGood'

\* C10: both halves together: the state a failed construction leaves, and
\* what the construction after it does.
C10_FirstSuccessfulConstructionWins ==
    [](C10_FailedConstruction) /\ [][C10_NextConstruction]_vars

C10_Witness ==
    /\ firstFailed
    /\ ret.op = "Config"
    /\ ret.arg = PathYaml
    /\ ret.exc = NoExc
    /\ ret.loadPath = PathYaml
    /\ PathAttr = PathYaml
    /\ HeldInstance

\* C9: two unsynchronized first constructions Config(P1) and Config(P2).
\* Whenever both threads have finished, load_config has run once or twice,
\* each thread obtained an allocated object, and the config_path of the
\* shared instance is P1 or P2; the witnesses below show that two loads,
\* two distinct objects and either final path are all reachable.
C9_RaceOutcomes ==
    RaceOver =>
        /\ loads \in 1..2
        /\ \A t \in Threads : self[t] \in 1..nobj
        /\ instance \in 1..nobj
        /\ PathAttr \in {ArgOf[t] : t \in Threads}

BothDone == \A t \in Threads : pc[t] = "done"

C9_Witness ==
    /\ BothDone
    /\ loads = 2
    /\ self["t1"] # self["t2"]

\* Reachable as well: either thread's path ends up in the shared instance,
\* and one object can be loaded twice.
C9_FinalPathIsP1 == BothDone /\ PathAttr = ArgOf["t1"]
C9_FinalPathIsP2 == BothDone /\ PathAttr = ArgOf["t2"]
C9_SameObjectLoadedTwice == BothDone /\ loads = 2 /\ self["t1"] = self["t2"]

\* C2 as stated: none of the five session operations raises.
C2_NoSessionOperationRaises == call.exc = NoExc

\* C4 as stated: when the client's open raises an authentication, timeout,
\* connection or SSH error, connect_to_device opens once, returns None and
\* logs exactly one error line, that of the first matching handler.
FirstMatchingHandler(classes) ==
    CASE "NetmikoAuthenticationException" \in classes -> "Authentication failed"
      [] "NetmikoAuthenticationException" \notin classes
         /\ "NetmikoTimeoutException" \in classes -> "Connection timed out"
      [] classes \cap {"NetmikoAuthenticationException",
                       "NetmikoTimeoutException"} = {}
         /\ "ConnectionException" \in classes -> "Connection error"
      [] classes = {"SSHException"} -> "SSH error while connecting"
      [] classes = {} -> "Failed to connect"

OpenRaisedCategorized ==
    /\ call.op = "connect_to_device"
    /\ ~call.args.outcomes[1].ok
    /\ call.args.outcomes[1].classes # {}

\* C4: one open, None returned, one error line of the first matching
\* handler, for every descriptor.
C4_ConnectFailureLogsOneCategory ==
    OpenRaisedCategorized =>
        /\ call.exc = NoExc
        /\ call.ret = RetNone
        /\ call.client = <<ClientCall("ConnectHandler", "device_info")>>
        /\ call.log = <<Error(FirstMatchingHandler(call.args.outcomes[1].classes))>>

\* What C4 says does hold for the descriptors that carry a 'host' key.
C4_HoldsWithHostKey ==
    (OpenRaisedCategorized /\ HasHost(call.args.device)) =>
        /\ call.exc = NoExc
        /\ call.ret = RetNone
        /\ call.client = <<ClientCall("ConnectHandler", "device_info")>>
        /\ call.log = <<Error(FirstMatchingHandler(call.args.outcomes[1].classes))>>

\* C8: with a null handle, disconnect_from_device, execute_command,
\* execute_commands and configure_device call the client not at all, raise
\* nothing, log one 'No active connection' INFO line, and the three
\* executing operations return None.
NullHandleOps == {"disconnect_from_device", "execute_command",
                  "execute_commands", "configure_device"}
NoActiveConnection ==
    [op \in NullHandleOps |->
        CASE op = "disconnect_from_device" -> "No active connection to disconnect."
          [] op = "execute_command" -> "No active connection to execute command."
          [] op = "execute_commands" -> "No active connection to execute commands."
          [] op = "configure_device" -> "No active connection to configure device."]

\* C8: the outcome of each of the four operations on a null handle.
C8_NullHandleIsNoOp ==
    (call.op \in NullHandleOps /\ call.args.connection = NullHandle) =>
        /\ call.client = <<>>
        /\ call.exc = NoExc
        /\ call.log = <<Info(NoActiveConnection[call.op])>>
        /\ call.ret = RetNone

C8_Witness ==
    /\ call.op = "disconnect_from_device"
    /\ call.args.connection = NullHandle
    /\ call.log = <<Info("No active connection to disconnect.")>>
    /\ call.client = <<>>

\* C3: the parts of the claim about execute_commands on which every
\* reading agrees.
Range(f) == {f[i] : i \in DOMAIN f}
ResultOf(o) == IF o.ok THEN RetText(o.text) ELSE RetNone
LastIndex(commands, c) ==
    CHOOSE i \in DOMAIN commands :
        commands[i] = c /\ \A j \in DOMAIN commands : commands[j] = c => j <= i

RanCommands == call.op = "execute_commands"

C3_AttemptsAndKeys ==
    /\ call.ret = RetNone <=> call.args.connection = NullHandle
    /\ call.args.connection # NullHandle =>
          /\ call.exc = NoExc
          /\ call.client = [i \in DOMAIN call.args.commands |->
                               ClientCall("send_command", call.args.commands[i])]
          /\ call.ret.kind = "dict"
          /\ DOMAIN call.ret.map = Range(call.args.commands)

\* C3 as stated: every command of the list is mapped to the result of its
\* own attempt.
C3_EachCommandMapsToItsAttempt ==
    RanCommands =>
        /\ C3_AttemptsAndKeys
        /\ call.args.connection # NullHandle =>
              \A i \in DOMAIN call.args.commands :
                  call.ret.map[call.args.commands[i]]
                      = ResultOf(call.args.outcomes[i])

\* C3 amended: every distinct command of the list is mapped to the result
\* of the last attempt made for it.
C3_EachCommandMapsToItsLastAttempt ==
    RanCommands =>
        /\ C3_AttemptsAndKeys
        /\ call.args.connection # NullHandle =>
              \A c \in Range(call.args.commands) :
                  call.ret.map[c]
                      = ResultOf(call.args.outcomes[LastIndex(call.args.commands, c)])

C3_Witness ==
    /\ RanCommands
    /\ call.args.connection # NullHandle
    /\ call.args.commands = <<"show version", "show version">>
    /\ call.args.outcomes[1].ok
    /\ ~call.args.outcomes[2].ok
    /\ call.ret.map["show version"] = RetNone
    /\ Len(call.client) = 2

====
